---------------------------- MODULE Spec2Model ----------------------------
(***************************************************************************)
(* A model of martins-card-app (src/app.py): the counters store            *)
(* (_load_counters, _save_counters, increment_counter, get_counters), the  *)
(* admin credential (password_ok, the password-reset flow), the session    *)
(* guard and the HTTP routes that use them.                                *)
(*                                                                         *)
(* Spec      every request handled from start to end before the next one   *)
(*           (one action per route handler).                               *)
(* SpecAdmin the login, password-reset and dashboard routes of two         *)
(*           clients, over every credential the process can start on.      *)
(* SpecRace  requests of several workers interleaved at the file-system    *)
(*           calls of _load_counters and _save_counters.                   *)
(***************************************************************************)
EXTENDS Integers, Sequences, FiniteSets, TLC

VARIABLES
    cardsFile,      \* content found at the path CARDS_FILE
    countersFile,   \* content found at the path COUNTERS_FILE
    tmpFile,        \* content found at the path COUNTERS_FILE + ".tmp"
    authFile,       \* content found at the path ADMIN_AUTH_FILE
    session,        \* per client: the cookie's admin_logged_in flag
    env,            \* ADMIN_PASSWORD and ADMIN_RESET_KEY, read at import
    req,            \* the request handled last
    resp,           \* the response given to it
    startv,         \* history: what get_counters showed at start / last reset
    incs,           \* history: increment_counter calls returned since then
    wiped,          \* history: a reset was done and no increment since
    procs,          \* SpecRace: each worker's position in its request
    started,        \* SpecRace: requests started so far
    completed,      \* SpecRace: per slug and key, increments that returned
    renameErrors    \* SpecRace: os.replace calls that raised FileNotFoundError

vars == <<cardsFile, countersFile, tmpFile, authFile, session, env, req, resp,
          startv, incs, wiped, procs, started, completed, renameErrors>>

\* what no handler writes: the cards file and the environment
fixed == <<cardsFile, env>>

seqvars == <<procs, started, completed, renameErrors>>

-----------------------------------------------------------------------------
(* Bounds of the model.                                                    *)

\* increment_counter calls between two resets (Spec)
MaxIncs == 2
\* requests started in one run of SpecRace
MaxStarted == 3

-----------------------------------------------------------------------------
(* Values.                                                                 *)

CounterKeys == {"contact_shared", "whatsapp_clicks", "email_clicks",
                "map_clicks", "share_clicks", "nfc_scans"}

DEFAULT_COUNTERS == [k \in CounterKeys |-> 0]

\* The cards document: two cards with every field the handlers read, "wjm"
\* the default.
Cards ==
    [default_slug |-> "wjm",
     cards |-> [s \in {"wjm", "anna"} |->
        IF s = "wjm"
        THEN [display_name |-> "WJM", contact_save_name |-> "WJM Martins",
              org |-> "Martins", title |-> "Director",
              whatsapp_display |-> "082 561 5932",
              whatsapp_e164 |-> "27825615932",
              office_display |-> "011 000 0000", office_e164 |-> "27110000000",
              email |-> "wjm@example.com",
              website_display |-> "example.com",
              website_url |-> "https://example.com",
              address_text |-> "208 Weltevreden Road",
              maps_destination |-> "208%20Weltevreden%20Road"]
        ELSE [display_name |-> "Anna", contact_save_name |-> "Anna Martins",
              org |-> "Martins", title |-> "Manager",
              whatsapp_display |-> "011 000 0001",
              whatsapp_e164 |-> "27110000001",
              office_display |-> "011 000 0000", office_e164 |-> "27110000000",
              email |-> "anna@example.com",
              website_display |-> "example.com",
              website_url |-> "https://example.com",
              address_text |-> "1 Main Road",
              maps_destination |-> "1%20Main%20Road"]]]

\* the cards file holding the document above
CardsFile == [kind |-> "object", doc |-> Cards]

\* no file at the path CARDS_FILE
NoCardsFile == [kind |-> "missing", doc |-> <<>>]

\* a cards file json.load raises on
CorruptCardsFile == [kind |-> "corrupt", doc |-> <<>>]

\* load_cards(): the document, or the exception raised
load_cards ==
    IF cardsFile.kind = "missing"
    THEN [ok |-> FALSE, data |-> <<>>,
          error |-> "RuntimeError: cards.json missing"]
    ELSE IF cardsFile.kind = "corrupt"
    THEN [ok |-> FALSE, data |-> <<>>, error |-> "JSONDecodeError"]
    ELSE [ok |-> TRUE, data |-> cardsFile.doc, error |-> ""]

\* the slugs of the cards document above
KnownSlugs == DOMAIN Cards.cards

\* the slugs requests name: the known ones and one that is no card
Slugs == KnownSlugs \cup {"ghost"}

Clients == {"c1", "c2"}

\* The printable ASCII characters in the order of their codes, 32 to 126.
\* Texts are sequences of these; "<grave>" stands for the character of code 96.
AsciiPrintable ==
    <<" ", "!", "\"", "#", "$", "%", "&", "'", "(", ")", "*", "+", ",", "-", ".",
      "/", "0", "1", "2", "3", "4", "5", "6", "7", "8", "9", ":", ";", "<", "=",
      ">", "?", "@", "A", "B", "C", "D", "E", "F", "G", "H", "I", "J", "K", "L",
      "M", "N", "O", "P", "Q", "R", "S", "T", "U", "V", "W", "X", "Y", "Z", "[",
      "\\", "]", "^", "_", "<grave>", "a", "b", "c", "d", "e", "f", "g", "h",
      "i", "j", "k", "l", "m", "n", "o", "p", "q", "r", "s", "t", "u", "v", "w",
      "x", "y", "z", "{", "|", "}", "~">>

Ord(c) == 31 + CHOOSE i \in 1..Len(AsciiPrintable) : AsciiPrintable[i] = c

Chr(n) == AsciiPrintable[n - 31]

HexDigits == <<"0", "1", "2", "3", "4", "5", "6", "7", "8", "9",
               "A", "B", "C", "D", "E", "F">>

LowerHexDigits == <<"0", "1", "2", "3", "4", "5", "6", "7", "8", "9",
                    "a", "b", "c", "d", "e", "f">>

IsHex(c) == \E i \in DOMAIN HexDigits : c \in {HexDigits[i], LowerHexDigits[i]}

HexValue(c) ==
    (CHOOSE i \in DOMAIN HexDigits : c \in {HexDigits[i], LowerHexDigits[i]}) - 1

\* the characters of a text put together
RECURSIVE Join(_)
Join(chars) == IF chars = <<>> THEN "" ELSE Head(chars) \o Join(Tail(chars))

\* the value of a query argument sent as raw: + stands for a space and %XX
\* for the character of that code
RECURSIVE url_decode(_)
url_decode(raw) ==
    IF raw = <<>> THEN <<>>
    ELSE IF Head(raw) = "+" THEN <<" ">> \o url_decode(Tail(raw))
    ELSE IF Head(raw) = "%" /\ Len(raw) >= 3 /\ IsHex(raw[2]) /\ IsHex(raw[3])
    THEN <<Chr(16 * HexValue(raw[2]) + HexValue(raw[3]))>>
            \o url_decode(SubSeq(raw, 4, Len(raw)))
    ELSE <<Head(raw)>> \o url_decode(Tail(raw))

\* request.args.get(name, default): args holds the arguments of the query
\* string as they were sent
ArgGet(args, name, default) ==
    IF name \in DOMAIN args THEN url_decode(args[name]) ELSE default

\* request.form.get(name, default): form holds the fields as filled in
FormGet(form, name, default) ==
    IF name \in DOMAIN form THEN form[name] ELSE default

EmptyDoc == <<>>

Missing == [kind |-> "missing", doc |-> EmptyDoc, len |-> 0]

\* open(path, "w") on a path: created or truncated, nothing written yet
Truncated == [kind |-> "empty", doc |-> EmptyDoc, len |-> 0]

\* contents json.load raises on
Unparseable == {"corrupt", "empty", "torn"}

-----------------------------------------------------------------------------
(* json.dump(data, f, indent=2): the number of characters written.  Two     *)
(* writers of one file overwrite each other from offset 0, so what is left  *)
(* depends on the lengths.                                                  *)

RECURSIVE Sum(_, _)
Sum(f, S) ==
    IF S = {} THEN 0
    ELSE LET x == CHOOSE y \in S : TRUE IN f[x] + Sum(f, S \ {x})

\* len(str(n))
RECURSIVE Digits(_)
Digits(n) ==
    IF n < 0 THEN 1 + Digits(0 - n)
    ELSE IF n < 10 THEN 1
    ELSE 1 + Digits(n \div 10)

\* a dict of integers printed at nesting depth d (d = 1: the document itself)
FlatLen(rec, d) ==
    LET n == Cardinality(DOMAIN rec)
        item == [k \in DOMAIN rec |-> 2 * d + Len(k) + 2 + 2 + Digits(rec[k])]
    IN IF n = 0 THEN 2
       ELSE 2 + Sum(item, DOMAIN rec) + 2 * (n - 1) + 1 + 2 * (d - 1) + 1

JsonLen(doc) ==
    LET n == Cardinality(DOMAIN doc)
        item == [s \in DOMAIN doc |-> 2 + Len(s) + 2 + 2 + FlatLen(doc[s], 2)]
    IN IF n = 0 THEN 2
       ELSE 2 + Sum(item, DOMAIN doc) + 2 * (n - 1) + 1 + 1

\* a counters file holding {slug: {key: int}}
Obj(doc) == [kind |-> "object", doc |-> doc, len |-> JsonLen(doc)]

\* a counters file of the older shape {key: int}
Flat(rec) == [kind |-> "flat", doc |-> rec, len |-> FlatLen(rec, 1)]

\* text that is no JSON
Corrupt == [kind |-> "corrupt", doc |-> EmptyDoc, len |-> 9]

\* valid JSON that is no object: [1, 2]
NonObject == [kind |-> "nonobject", doc |-> EmptyDoc, len |-> 6]

\* write(text) at offset 0 of a file that holds `old`
Overlay(old, new) ==
    IF new.len >= old.len THEN new
    ELSE [kind |-> "torn", doc |-> EmptyDoc, len |-> old.len]

-----------------------------------------------------------------------------
(* The counters store.                                                     *)

\* data.get("default_slug", "wjm"); raises what load_cards raises
get_default_slug ==
    LET lc == load_cards
    IN IF ~lc.ok THEN [ok |-> FALSE, slug |-> ""]
       ELSE [ok |-> TRUE,
             slug |-> IF "default_slug" \in DOMAIN lc.data
                      THEN lc.data.default_slug ELSE "wjm"]

\* the flat shape: a counter name at the top level and no dict among the values
LooksFlat(f) == f.kind = "flat" /\ (DOMAIN f.doc \cap CounterKeys) # {}

\* lines 106-113: the flat counters put under the default slug, "wjm" when
\* get_default_slug raises
Migrated(f) ==
    LET default_slug == IF get_default_slug.ok THEN get_default_slug.slug
                        ELSE "wjm"
    IN default_slug :>
        [k \in CounterKeys |->
            IF k \in DOMAIN f.doc THEN f.doc[k] ELSE DEFAULT_COUNTERS[k]]

\* What _load_counters does with the content it finds: the document it
\* returns and the call of _save_counters it makes on the way ("none" when it
\* makes none), with the document saved.
LoadPlan(f) ==
    IF f.kind = "missing"
    THEN [data |-> EmptyDoc, save |-> "missing", saved |-> EmptyDoc]
    ELSE IF f.kind \in Unparseable
    THEN [data |-> EmptyDoc, save |-> "except", saved |-> EmptyDoc]
    ELSE IF f.kind = "nonobject"
    THEN [data |-> EmptyDoc, save |-> "none", saved |-> EmptyDoc]
    ELSE IF LooksFlat(f)
    THEN [data |-> Migrated(f), save |-> "migrate", saved |-> Migrated(f)]
    ELSE [data |-> f.doc, save |-> "none", saved |-> EmptyDoc]

\* _save_counters with no other writer: the temporary file is written and
\* renamed over the counters file
_save_counters(data) == Obj(data)

\* _load_counters with no other writer: the document and the file left
_load_counters(f) ==
    LET plan == LoadPlan(f)
    IN [data |-> plan.data,
        file |-> IF plan.save = "none" THEN f ELSE _save_counters(plan.saved)]

\* data.get(slug, {}) with every key of DEFAULT_COUNTERS set by default
CardData(data, slug) ==
    LET rec == IF slug \in DOMAIN data THEN data[slug] ELSE EmptyDoc
    IN [k \in CounterKeys \cup DOMAIN rec |->
            IF k \in DOMAIN rec THEN rec[k] ELSE DEFAULT_COUNTERS[k]]

\* Bumped with the count started over from the default instead of the
\* stored value
Bumped_FromDefault(data, slug, key) ==
    LET card_data == CardData(data, slug)
    IN (slug :> [card_data EXCEPT ![key] = DEFAULT_COUNTERS[key] + 1]) @@ data

\* Bumped with the records of the other slugs left out of the document
Bumped_OnlySlug(data, slug, key) ==
    LET card_data == CardData(data, slug)
    IN slug :> [card_data EXCEPT ![key] = @ + 1]

\* lines 125-130: the document with data[slug][key] one higher
Bumped(data, slug, key) ==
    LET card_data == CardData(data, slug)
    IN (slug :> [card_data EXCEPT ![key] = @ + 1]) @@ data

increment_counter(f, slug, key) ==
    LET data == Bumped(_load_counters(f).data, slug, key)
    IN [ret |-> data[slug][key], file |-> _save_counters(data)]

get_counters(f, slug) ==
    LET ld == _load_counters(f)
    IN [ret |-> CardData(ld.data, slug), file |-> ld.file]

\* what get_counters would return for every slug, were it called now
Shown(f) == [s \in Slugs |-> get_counters(f, s).ret]

-----------------------------------------------------------------------------
(* The admin credential.  A password hash is modelled by what                *)
(* check_password_hash tells about it: the method prefix, the salt and the   *)
(* password it was made from.  ADMIN_PASSWORD is such a string too, with     *)
(* method "plain" when it is no hash.                                        *)

Salts == {"s1", "s2"}

Passwords == {"change-me", "n3w-passw0rd", "short"}

\* len(new_pw) of the passwords above
PwLen(pw) == Len(pw)

MinPasswordLen == 8

Hash(method, salt, pw) == [method |-> method, salt |-> salt, pw |-> pw]

NoHash == Hash("", "", "")

check_password_hash(h, pw) == h.method \in {"pbkdf2", "scrypt"} /\ h.pw = pw

NoAuthFile == [kind |-> "missing", password_hash |-> NoHash]

CorruptAuthFile == [kind |-> "corrupt", password_hash |-> NoHash]

_save_admin_password_hash(h) == [kind |-> "object", password_hash |-> h]

\* the persisted hash, NoHash standing for None
_load_admin_password_hash(af) ==
    IF af.kind = "object" /\ af.password_hash # NoHash
    THEN af.password_hash
    ELSE NoHash

\* password_ok with the environment's password tried before the persisted hash
password_ok_env_first(af, e, pw) ==
    LET persisted == _load_admin_password_hash(af)
    IN \/ IF e.ADMIN_PASSWORD.method \in {"pbkdf2", "scrypt"}
          THEN check_password_hash(e.ADMIN_PASSWORD, pw)
          ELSE pw = e.ADMIN_PASSWORD.pw
       \/ persisted # NoHash /\ check_password_hash(persisted, pw)

password_ok(af, e, pw) ==
    LET persisted == _load_admin_password_hash(af)
    IN IF persisted # NoHash
       THEN check_password_hash(persisted, pw)
       ELSE IF e.ADMIN_PASSWORD.method \in {"pbkdf2", "scrypt"}
       THEN check_password_hash(e.ADMIN_PASSWORD, pw)
       ELSE pw = e.ADMIN_PASSWORD.pw

is_admin_logged_in(c) == session[c]

-----------------------------------------------------------------------------
(* Requests and responses.                                                 *)

\* the characters urllib.parse.quote never encodes: letters, digits, _ . - ~
AlwaysSafe ==
    {AsciiPrintable[i] : i \in (17..26) \cup (34..59) \cup (66..91)}
        \cup {"_", ".", "-", "~"}

\* one character as quote writes it, "/" being safe by default
quote_char(c) ==
    IF c \in AlwaysSafe \cup {"/"} THEN c
    ELSE "%" \o HexDigits[(Ord(c) \div 16) + 1] \o HexDigits[(Ord(c) % 16) + 1]

\* urllib.parse.quote(text)
RECURSIVE quote(_)
quote(text) ==
    IF text = <<>> THEN "" ELSE quote_char(Head(text)) \o quote(Tail(text))

\* the text and subject arguments as sent in the query string:
\* Hello, Hi%20there, Hi+there
Hello == <<"H", "e", "l", "l", "o">>

HiPercent == <<"H", "i", "%", "2", "0", "t", "h", "e", "r", "e">>

HiPlus == <<"H", "i", "+", "t", "h", "e", "r", "e">>

\* the query strings of /go/whatsapp: no text, an empty one, and the three
Texts ==
    {<<>>} \cup {"text" :> t : t \in {<<>>, Hello, HiPercent, HiPlus}}

Subjects == {<<>>, "subject" :> HiPlus}

\* the subject of a request that names none
DefaultSubject ==
    <<"E", "n", "q", "u", "i", "r", "y", " ", "f", "r", "o", "m", " ",
      "W", "e", "b", "s", "i", "t", "e">>

\* the destination of a card that names none
DefaultDestination == "208%20Weltevreden%20Road%2C%20Northcliff"

ResetKeys == {"rk-1", "wrong-key"}

NoArgs == <<>>

Request(route, method, slug, client, args) ==
    [route |-> route, method |-> method, slug |-> slug, client |-> client,
     args |-> args]

NoRequest == Request("", "", "", "", NoArgs)

Response(status, location, body, error) ==
    [status |-> status, location |-> location, body |-> body,
     error |-> error, success |-> "", counted |-> 0, share_count |-> 0,
     rows |-> <<>>]

NoResponse == Response(0, "", "", "")

redirect(location) == Response(302, location, "", "")

abort404 == Response(404, "", "", "")

\* an exception no handler catches: the request is answered 500
InternalError(error) == Response(500, "", "", error)

render_template(template, error) == Response(200, "", template, error)

\* get_card(slug): the card with its slug, None for a slug with no record or
\* an empty one, or the exception of load_cards
get_card(slug) ==
    LET lc == load_cards
        cards == IF "cards" \in DOMAIN lc.data THEN lc.data.cards ELSE <<>>
    IN IF ~lc.ok
       THEN [status |-> "raised", card |-> <<>>, error |-> lc.error]
       ELSE IF slug \notin DOMAIN cards \/ DOMAIN cards[slug] = {}
       THEN [status |-> "none", card |-> <<>>, error |-> ""]
       ELSE [status |-> "card", card |-> ("slug" :> slug) @@ cards[slug],
             error |-> ""]

\* c[field] for each of the fields in turn: the KeyError of the first one the
\* card has not, "" when it has them all
RECURSIVE KeyError(_, _)
KeyError(c, fields) ==
    IF fields = <<>> THEN ""
    ELSE IF Head(fields) \notin DOMAIN c THEN "KeyError: '" \o Head(fields) \o "'"
    ELSE KeyError(c, Tail(fields))

\* the fields card() reads with c[...], in the order it reads them
CardFields ==
    <<"display_name", "contact_save_name", "org", "title", "whatsapp_display",
      "whatsapp_e164", "office_display", "office_e164", "email",
      "website_display", "website_url", "address_text", "maps_destination">>

\* the fields vcard_slug() reads with c[...], in the order it reads them
VcardFields ==
    <<"contact_save_name", "org", "title", "whatsapp_e164", "office_e164",
      "email", "website_url">>

\* rs, unless reading the fields raises
Unless(c, fields, rs) ==
    IF KeyError(c, fields) # "" THEN InternalError(KeyError(c, fields)) ELSE rs

-----------------------------------------------------------------------------
(* The initial state: the files and the environment the process starts on. *)

InitialCounterFiles ==
    { Missing, Corrupt, NonObject,
      Flat(("whatsapp_clicks" :> 2) @@ ("nfc_scans" :> 1)),
      Obj(("wjm" :> [DEFAULT_COUNTERS EXCEPT !["contact_shared"] = 3])
          @@ ("anna" :> ("map_clicks" :> 1))) }

InitialAuthFiles == {NoAuthFile, CorruptAuthFile}

Environments ==
    { [ADMIN_PASSWORD |-> Hash("plain", "", "change-me"),
       ADMIN_RESET_KEY |-> ""],
      [ADMIN_PASSWORD |-> Hash("plain", "", "change-me"),
       ADMIN_RESET_KEY |-> "rk-1"],
      [ADMIN_PASSWORD |-> Hash("scrypt", "s0", "change-me"),
       ADMIN_RESET_KEY |-> "rk-1"] }

NoCounts == [s \in Slugs |-> DEFAULT_COUNTERS]

Idle == [pc |-> "idle", op |-> "", slug |-> "", key |-> "",
         loaded |-> EmptyDoc, data |-> EmptyDoc, ctx |-> "", fd |-> "none"]

\* the workers (threads or processes) that handle requests at the same time
Procs == {"w1", "w2"}

Start(cardsFiles, files, authFiles, envs) ==
    /\ cardsFile \in cardsFiles
    /\ countersFile \in files
    /\ tmpFile = Missing
    /\ authFile \in authFiles
    /\ session = [c \in Clients |-> FALSE]
    /\ env \in envs
    /\ req = NoRequest
    /\ resp = NoResponse
    /\ startv = Shown(countersFile)
    /\ incs = NoCounts
    /\ wiped = FALSE
    /\ procs = [p \in Procs |-> Idle]
    /\ started = 0
    /\ completed = NoCounts
    /\ renameErrors = 0

DefaultEnv ==
    [ADMIN_PASSWORD |-> Hash("plain", "", "change-me"), ADMIN_RESET_KEY |-> ""]

\* any cards file and any counters file, the credential as deployed first
Init ==
    Start({CardsFile, NoCardsFile, CorruptCardsFile}, InitialCounterFiles,
          {NoAuthFile}, {DefaultEnv})

\* any credential, a counters file of either shape, the cards file there or not
InitAdmin ==
    Start({CardsFile, NoCardsFile},
          {Corrupt, Obj("wjm" :> [DEFAULT_COUNTERS EXCEPT !["nfc_scans"] = 1])},
          InitialAuthFiles, Environments)

-----------------------------------------------------------------------------
(* Spec: the route handlers, each run from start to end.                   *)

TotalIncs == Sum([s \in Slugs |-> Sum(incs[s], CounterKeys)], Slugs)

\* the handler answers rs and changes nothing
Answer(r, rs) ==
    /\ req' = r
    /\ resp' = rs
    /\ UNCHANGED <<countersFile, tmpFile, authFile, session, fixed, startv, incs,
                   wiped, seqvars>>

\* get_card gave no card: its exception goes up, or the handler aborts
NoCard(r, c) ==
    IF c.status = "raised" THEN Answer(r, InternalError(c.error))
    ELSE Answer(r, abort404)

\* Count with the default slug counted in place of the request's
Count_DefaultSlug(r, key, rs) ==
    LET ic == increment_counter(countersFile, get_default_slug.slug, key)
    IN /\ TotalIncs < MaxIncs
       /\ countersFile' = ic.file
       /\ incs' = [incs EXCEPT ![get_default_slug.slug][key] = @ + 1]
       /\ wiped' = FALSE
       /\ req' = r
       /\ resp' = [rs EXCEPT !.counted = ic.ret]
       /\ UNCHANGED <<tmpFile, authFile, session, fixed, startv, seqvars>>

\* the handler calls increment_counter(r.slug, key) and then answers rs
Count(r, key, rs) ==
    LET ic == increment_counter(countersFile, r.slug, key)
    IN /\ TotalIncs < MaxIncs
       /\ countersFile' = ic.file
       /\ incs' = [incs EXCEPT ![r.slug][key] = @ + 1]
       /\ wiped' = FALSE
       /\ req' = r
       /\ resp' = [rs EXCEPT !.counted = ic.ret]
       /\ UNCHANGED <<tmpFile, authFile, session, fixed, startv, seqvars>>

go_whatsapp(slug, args) ==
    LET r == Request("go_whatsapp", "GET", slug, "", args)
        c == get_card(slug)
        msg == ArgGet(args, "text", <<>>)
        base == "https://wa.me/" \o c.card.whatsapp_e164
    IN IF c.status # "card" THEN NoCard(r, c)
       ELSE Count(r, "whatsapp_clicks",
                  Unless(c.card, <<"whatsapp_e164">>,
                         IF msg # <<>>
                         THEN redirect(base \o "?text=" \o quote(msg))
                         ELSE redirect(base)))

go_email(slug, args) ==
    LET r == Request("go_email", "GET", slug, "", args)
        c == get_card(slug)
        subject == ArgGet(args, "subject", DefaultSubject)
    IN IF c.status # "card" THEN NoCard(r, c)
       ELSE Count(r, "email_clicks",
                  Unless(c.card, <<"email">>,
                         redirect("mailto:" \o c.card.email \o "?subject="
                                  \o quote(subject))))

go_map(slug) ==
    LET r == Request("go_map", "GET", slug, "", NoArgs)
        c == get_card(slug)
        destination == IF "maps_destination" \in DOMAIN c.card
                       THEN c.card.maps_destination ELSE DefaultDestination
    IN IF c.status # "card" THEN NoCard(r, c)
       ELSE Count(r, "map_clicks",
                  redirect("https://www.google.com/maps/dir/?api=1&destination="
                           \o destination))

go_share(slug) ==
    LET r == Request("go_share", "GET", slug, "", NoArgs)
        c == get_card(slug)
    IN IF c.status # "card" THEN NoCard(r, c)
       ELSE Count(r, "share_clicks", Response(204, "", "", ""))

\* go_nfc without the look-up of the card
go_nfc_unchecked(slug) ==
    Count(Request("go_nfc", "GET", slug, "", NoArgs), "nfc_scans",
          redirect("/c/" \o slug))

go_nfc(slug) ==
    LET r == Request("go_nfc", "GET", slug, "", NoArgs)
        c == get_card(slug)
    IN IF c.status # "card" THEN NoCard(r, c)
       ELSE Count(r, "nfc_scans", redirect("/c/" \o slug))

vcard_slug(slug) ==
    LET r == Request("vcard_slug", "GET", slug, "", NoArgs)
        c == get_card(slug)
    IN IF c.status # "card" THEN NoCard(r, c)
       ELSE Count(r, "contact_shared",
                  Unless(c.card, VcardFields,
                         Response(200, "", "text/vcard", "")))

qr_png_slug(slug) ==
    LET r == Request("qr_png_slug", "GET", slug, "", NoArgs)
        c == get_card(slug)
    IN IF c.status # "card" THEN NoCard(r, c)
       ELSE Answer(r, Response(200, "", "image/png", ""))

\* a handler that reads the counters: _load_counters may rewrite the file
Read(r, rs) ==
    /\ countersFile' = _load_counters(countersFile).file
    /\ req' = r
    /\ resp' = rs
    /\ UNCHANGED <<tmpFile, authFile, session, fixed, startv, incs, wiped,
                   seqvars>>

card(slug) ==
    LET r == Request("card", "GET", slug, "", NoArgs)
        c == get_card(slug)
        counters == get_counters(countersFile, slug).ret
    IN IF c.status # "card" THEN NoCard(r, c)
       ELSE Read(r, Unless(c.card, CardFields,
                           [render_template("card.html", "")
                                EXCEPT !.share_count = counters["contact_shared"]]))

\* the rows of the dashboard, by slug (the list is sorted by slug)
build_admin_rows ==
    LET cards_data == load_cards.data
        cards == IF "cards" \in DOMAIN cards_data THEN cards_data.cards ELSE <<>>
        all_counters == _load_counters(countersFile).data
    IN [s \in DOMAIN cards |->
            [k \in CounterKeys |-> CardData(all_counters, s)[k]]
            @@ [slug |-> s,
                display_name |-> IF "display_name" \in DOMAIN cards[s]
                                 THEN cards[s].display_name ELSE s,
                contact_save_name |-> IF "contact_save_name" \in DOMAIN cards[s]
                                      THEN cards[s].contact_save_name ELSE "",
                card_url |-> "/c/" \o s]]

admin(client) ==
    LET r == Request("admin", "GET", "", client, NoArgs)
    IN IF ~is_admin_logged_in(client) THEN Answer(r, redirect("/admin/login"))
       ELSE IF ~load_cards.ok THEN Answer(r, InternalError(load_cards.error))
       ELSE Read(r, [render_template("admin.html", "")
                        EXCEPT !.rows = build_admin_rows])

admin_export_csv(client) ==
    LET r == Request("admin_export_csv", "GET", "", client, NoArgs)
    IN IF ~is_admin_logged_in(client) THEN Answer(r, redirect("/admin/login"))
       ELSE IF ~load_cards.ok THEN Answer(r, InternalError(load_cards.error))
       ELSE Read(r, [Response(200, "", "text/csv", "")
                        EXCEPT !.rows = build_admin_rows])

admin_login(client, method, form) ==
    LET r == Request("admin_login", method, "", client, form)
        pw == FormGet(form, "password", "")
    IN IF method = "POST"
       THEN IF password_ok(authFile, env, pw)
            THEN /\ session' = [session EXCEPT ![client] = TRUE]
                 /\ req' = r
                 /\ resp' = redirect("/admin")
                 /\ UNCHANGED <<countersFile, tmpFile, authFile, fixed, startv,
                                incs, wiped, seqvars>>
            ELSE Answer(r, render_template("admin_login.html",
                                           "Incorrect password."))
       ELSE Answer(r, render_template("admin_login.html", ""))

admin_logout(client) ==
    /\ session' = [session EXCEPT ![client] = FALSE]
    /\ req' = Request("admin_logout", "POST", "", client, NoArgs)
    /\ resp' = redirect("/admin/login")
    /\ UNCHANGED <<countersFile, tmpFile, authFile, fixed, startv, incs, wiped,
                   seqvars>>

generate_password_hash(pw, salt) == Hash("scrypt", salt, pw)

ResetDisabled ==
    "Password reset is not enabled. Set ADMIN_RESET_KEY in your environment variables."

\* reset_verdict without the comparison of the confirmation
reset_verdict_no_confirm(e, method, reset_key, new_pw, confirm) ==
    IF e.ADMIN_RESET_KEY = "" THEN ResetDisabled
    ELSE IF method # "POST" THEN ""
    ELSE IF reset_key # e.ADMIN_RESET_KEY THEN "Incorrect reset key."
    ELSE IF new_pw = "" \/ PwLen(new_pw) < MinPasswordLen
    THEN "Password must be at least 8 characters."
    ELSE "ok"

\* the checks of the reset form in their order: the error the page is
\* rendered with, "" for a GET, "ok" when the new hash is to be persisted
reset_verdict(e, method, reset_key, new_pw, confirm) ==
    IF e.ADMIN_RESET_KEY = "" THEN ResetDisabled
    ELSE IF method # "POST" THEN ""
    ELSE IF reset_key # e.ADMIN_RESET_KEY THEN "Incorrect reset key."
    ELSE IF new_pw = "" \/ PwLen(new_pw) < MinPasswordLen
    THEN "Password must be at least 8 characters."
    ELSE IF new_pw # confirm THEN "Passwords do not match."
    ELSE "ok"

PasswordUpdated ==
    "Password updated. You can now sign in with the new password."

admin_password_reset(client, method, form) ==
    LET r == Request("admin_password_reset", method, "", client, form)
        new_pw == FormGet(form, "new_password", "")
        verdict == reset_verdict(env, method, FormGet(form, "reset_key", ""),
                                 new_pw, FormGet(form, "confirm_password", ""))
        page == "admin_password_reset.html"
    IN IF verdict # "ok" THEN Answer(r, render_template(page, verdict))
       ELSE /\ \E salt \in Salts :
                    authFile' = _save_admin_password_hash(
                                    generate_password_hash(new_pw, salt))
            /\ session' = [session EXCEPT ![client] = FALSE]
            /\ req' = r
            /\ resp' = [render_template(page, "")
                            EXCEPT !.success = PasswordUpdated]
            /\ UNCHANGED <<countersFile, tmpFile, fixed, startv, incs, wiped,
                           seqvars>>

\* admin_reset_counters without the session guard
admin_reset_counters_unguarded(client) ==
    /\ countersFile' = _save_counters(EmptyDoc)
    /\ startv' = NoCounts
    /\ incs' = NoCounts
    /\ wiped' = TRUE
    /\ req' = Request("admin_reset_counters", "POST", "", client, NoArgs)
    /\ resp' = redirect("/admin")
    /\ UNCHANGED <<tmpFile, authFile, session, fixed, seqvars>>

\* admin_reset_counters with the empty document never saved
admin_reset_counters_unsaved(client) ==
    LET r == Request("admin_reset_counters", "POST", "", client, NoArgs)
    IN IF ~is_admin_logged_in(client) THEN Answer(r, redirect("/admin/login"))
       ELSE /\ startv' = NoCounts
            /\ incs' = NoCounts
            /\ wiped' = TRUE
            /\ req' = r
            /\ resp' = redirect("/admin")
            /\ UNCHANGED <<countersFile, tmpFile, authFile, session, fixed,
                           seqvars>>

admin_reset_counters(client) ==
    LET r == Request("admin_reset_counters", "POST", "", client, NoArgs)
    IN IF ~is_admin_logged_in(client) THEN Answer(r, redirect("/admin/login"))
       ELSE /\ countersFile' = _save_counters(EmptyDoc)
            /\ startv' = NoCounts
            /\ incs' = NoCounts
            /\ wiped' = TRUE
            /\ req' = r
            /\ resp' = redirect("/admin")
            /\ UNCHANGED <<tmpFile, authFile, session, fixed, seqvars>>

\* the forms of the login page: no field, or the password
LoginForms(passwords) == {"password" :> pw : pw \in passwords}

\* the forms of the reset page
ResetForms ==
    { ("reset_key" :> key) @@ ("confirm_password" :> confirm) @@ new :
        key \in ResetKeys, confirm \in {"n3w-passw0rd", "change-me"},
        new \in {<<>>} \cup {"new_password" :> pw : pw \in Passwords} }

\* the public routes, and the dashboard of one client
Next ==
    \/ \E slug \in Slugs, args \in Texts : go_whatsapp(slug, args)
    \/ \E slug \in Slugs, args \in Subjects : go_email(slug, args)
    \/ \E slug \in Slugs : go_map(slug)
    \/ \E slug \in Slugs : go_share(slug)
    \/ \E slug \in Slugs : go_nfc(slug)
    \/ \E slug \in Slugs : vcard_slug(slug)
    \/ \E slug \in Slugs : qr_png_slug(slug)
    \/ \E slug \in Slugs : card(slug)
    \/ admin("c1")
    \/ admin_export_csv("c1")
    \/ \E form \in LoginForms({"change-me", "short"}) :
            admin_login("c1", "POST", form)
    \/ admin_logout("c1")
    \/ admin_reset_counters("c1")

Spec == Init /\ [][Next]_vars

\* the admin routes of every client, and one counting route
NextAdmin ==
    \/ \E c \in Clients : admin_login(c, "GET", NoArgs)
    \/ \E c \in Clients, form \in LoginForms(Passwords) \cup {NoArgs} :
            admin_login(c, "POST", form)
    \/ \E c \in Clients : admin_logout(c)
    \/ \E c \in Clients : admin_password_reset(c, "GET", NoArgs)
    \/ \E c \in Clients, form \in ResetForms :
            admin_password_reset(c, "POST", form)
    \/ \E c \in Clients : admin(c)
    \/ \E c \in Clients : admin_export_csv(c)
    \/ \E c \in Clients : admin_reset_counters(c)
    \/ \E slug \in Slugs : go_nfc(slug)

SpecAdmin == InitAdmin /\ [][NextAdmin]_vars

-----------------------------------------------------------------------------
(* SpecRace: increment_counter and get_counters of several workers, a step *)
(* per file-system call.  A worker's _save_counters is open(tmp, "w"),     *)
(* the write of the document when the with block closes the file, and     *)
(* os.replace(tmp, COUNTERS_FILE).  Every worker uses the same tmp path;   *)
(* fd tells where the file a worker holds open is found now.               *)

RaceKeys == {"whatsapp_clicks", "nfc_scans"}

InitRace ==
    Start({CardsFile},
          {Missing, Obj("wjm" :> [DEFAULT_COUNTERS EXCEPT !["nfc_scans"] = 1])},
          {NoAuthFile}, {DefaultEnv})

racevars == <<authFile, session, fixed, req, resp, startv, incs, wiped>>

\* _load_counters has returned data: increment_counter goes on to save,
\* get_counters returns
AfterLoad(w, data) ==
    IF w.op = "incr"
    THEN [w EXCEPT !.pc = "open", !.ctx = "incr", !.loaded = data,
                   !.data = Bumped(data, w.slug, w.key)]
    ELSE Idle

\* a request arrives at worker p
RaceStart(p, op, slug, key) ==
    /\ procs[p].pc = "idle"
    /\ started < MaxStarted
    /\ started' = started + 1
    /\ procs' = [procs EXCEPT ![p] = [Idle EXCEPT !.pc = "load", !.op = op,
                                                  !.slug = slug, !.key = key]]
    /\ UNCHANGED <<countersFile, tmpFile, completed, renameErrors, racevars>>

\* _load_counters up to its return or its call of _save_counters
RaceLoad(p) ==
    LET w == procs[p]
        plan == LoadPlan(countersFile)
    IN /\ w.pc = "load"
       /\ procs' = [procs EXCEPT ![p] =
                IF plan.save = "none" THEN AfterLoad(w, plan.data)
                ELSE [w EXCEPT !.pc = "open", !.ctx = plan.save,
                               !.data = plan.saved]]
       /\ UNCHANGED <<countersFile, tmpFile, started, completed, renameErrors,
                      racevars>>

\* open(tmp, "w"): the file at the tmp path is created, or truncated
SaveOpen(p) ==
    /\ procs[p].pc = "open"
    /\ tmpFile' = Truncated
    /\ procs' = [procs EXCEPT ![p].pc = "write", ![p].fd = "tmp"]
    /\ UNCHANGED <<countersFile, started, completed, renameErrors, racevars>>

\* json.dump and the close of the file: the document is written from
\* offset 0 into the file the worker opened, wherever it is found by now
SaveWrite(p) ==
    LET w == procs[p]
        text == Obj(w.data)
    IN /\ w.pc = "write"
       /\ tmpFile' = IF w.fd = "tmp" THEN Overlay(tmpFile, text) ELSE tmpFile
       /\ countersFile' = IF w.fd = "counters" THEN Overlay(countersFile, text)
                          ELSE countersFile
       /\ procs' = [procs EXCEPT ![p].pc = "replace", ![p].fd = "none"]
       /\ UNCHANGED <<started, completed, renameErrors, racevars>>

\* where the open files are found after the rename of tmp over the counters
Renamed(fd) ==
    CASE fd = "tmp" -> "counters"
      [] fd = "counters" -> "unlinked"
      [] OTHER -> fd

\* os.replace(tmp, COUNTERS_FILE), and the caller's code up to its next
\* file-system call.  With no file at the tmp path it raises
\* FileNotFoundError, which only the try block of _load_counters catches.
SaveReplace(p) ==
    LET w == procs[p]
    IN /\ w.pc = "replace"
       /\ IF tmpFile.kind = "missing"
          THEN /\ procs' = [procs EXCEPT ![p] =
                        IF w.ctx = "migrate"
                        THEN [w EXCEPT !.pc = "open", !.ctx = "except",
                                       !.data = EmptyDoc]
                        ELSE Idle]
               /\ renameErrors' = renameErrors + 1
               /\ UNCHANGED <<countersFile, tmpFile, completed>>
          ELSE /\ countersFile' = tmpFile
               /\ tmpFile' = Missing
               /\ procs' = [q \in Procs |->
                        IF q # p THEN [procs[q] EXCEPT !.fd = Renamed(@)]
                        ELSE IF w.ctx = "incr" THEN Idle
                        ELSE AfterLoad(w, w.data)]
               /\ completed' = IF w.ctx = "incr"
                               THEN [completed EXCEPT ![w.slug][w.key] = @ + 1]
                               ELSE completed
               /\ UNCHANGED renameErrors
       /\ UNCHANGED <<started, racevars>>

NextRace ==
    \/ \E p \in Procs, slug \in KnownSlugs, key \in RaceKeys :
            RaceStart(p, "incr", slug, key)
    \/ \E p \in Procs, slug \in KnownSlugs : RaceStart(p, "read", slug, "")
    \/ \E p \in Procs : RaceLoad(p)
    \/ \E p \in Procs : SaveOpen(p)
    \/ \E p \in Procs : SaveWrite(p)
    \/ \E p \in Procs : SaveReplace(p)

SpecRace == InitRace /\ [][NextRace]_vars

-----------------------------------------------------------------------------
(* The claims.                                                             *)

IncrementRoutes == {"go_whatsapp", "go_email", "go_map", "go_share", "go_nfc",
                    "vcard_slug"}

SlugRoutes == IncrementRoutes \cup {"card", "qr_png_slug"}

\* the counter each tracked route is to count
CounterOf(route) ==
    CASE route = "go_whatsapp" -> "whatsapp_clicks"
      [] route = "go_email" -> "email_clicks"
      [] route = "go_map" -> "map_clicks"
      [] route = "go_share" -> "share_clicks"
      [] route = "go_nfc" -> "nfc_scans"
      [] route = "vcard_slug" -> "contact_shared"
      [] OTHER -> ""

\* the last request was a tracked one for a slug that has a card
Counted == req.route \in IncrementRoutes /\ get_card(req.slug).status = "card"

\* C1: with requests handled one at a time and no reset in between,
\* get_counters(slug)[k] is the starting value plus the number of
\* increment_counter(slug, k) calls made, for every slug and every counter, and
\* the increment_counter call of the last request returned that same value (the
\* previous value plus 1).
C1_IncrementThenRead ==
    /\ \A s \in Slugs, k \in CounterKeys :
            get_counters(countersFile, s).ret[k] = startv[s][k] + incs[s][k]
    /\ Counted =>
            LET k == CounterOf(req.route)
            IN /\ incs[req.slug][k] >= 1
               /\ resp.counted = startv[req.slug][k] + incs[req.slug][k]

\* anna's map_clicks, 1 in the file at start, after two /go/map/anna
C1_Witness ==
    /\ req.route = "go_map" /\ req.slug = "anna"
    /\ startv["anna"]["map_clicks"] = 1
    /\ incs["anna"]["map_clicks"] = 2
    /\ resp.counted = 3

\* C2: after a logged-in POST /admin/reset-counters, and until the next
\* increment, get_counters(slug) returns six zeros for every slug.
C2_ResetShowsZeros ==
    wiped => \A s \in Slugs : get_counters(countersFile, s).ret = DEFAULT_COUNTERS

\* the card page of wjm (3 contact_shared in one of the files at start) read
\* after a reset
C2_Witness ==
    /\ wiped
    /\ req.route = "card" /\ req.slug = "wjm" /\ resp.status = 200
    /\ resp.share_count = 0

\* every counter of every slug keeps its value, but the request's own, which
\* is one higher
OneIncrement ==
    \A s \in Slugs, k \in CounterKeys :
        Shown(countersFile')[s][k] =
            Shown(countersFile)[s][k]
                + (IF s = req'.slug /\ k = CounterOf(req'.route) THEN 1 ELSE 0)

\* the text of the request: as it was sent, or as the handler reads it
AsGiven(raw) == {Join(raw), Join(url_decode(raw))}

\* the text the handler reads, percent-encoded
PercentEncoded(raw) == {quote(url_decode(raw))}

\* /go/whatsapp/<slug> redirects to https://wa.me/<whatsapp_e164>, with
\* ?text= and one of appended(text) after it when a text is given
WhatsappRedirect(appended(_)) ==
    LET raw == IF "text" \in DOMAIN req'.args THEN req'.args.text ELSE <<>>
        base == "https://wa.me/" \o get_card(req'.slug).card.whatsapp_e164
    IN /\ resp'.status = 302
       /\ IF raw = <<>> THEN resp'.location = base
          ELSE \E t \in appended(raw) : resp'.location = base \o "?text=" \o t

TrackedStep(appended(_)) ==
    (req'.route \in IncrementRoutes /\ get_card(req'.slug).status = "card") =>
        /\ OneIncrement
        /\ req'.route = "go_whatsapp" => WhatsappRedirect(appended)

\* C3 as claimed: a tracked request for a known slug raises its own counter
\* of its own slug by 1 and no other, and /go/whatsapp/<slug> redirects to
\* https://wa.me/<whatsapp_e164> with ?text=<text> appended, the text as given
\* (read either as it was sent or as the handler receives it).
C3_TextAsGiven == [][TrackedStep(AsGiven)]_vars

\* C3 amended: the same, the text appended in its percent-encoded form
\* (urllib.parse.quote of the text the handler receives).
C3_TextQuoted == [][TrackedStep(PercentEncoded)]_vars

\* /go/whatsapp/wjm?text=Hi+there, the second whatsapp click of wjm
C3_Witness ==
    /\ req.route = "go_whatsapp" /\ req.slug = "wjm"
    /\ req.args = ("text" :> HiPlus)
    /\ resp.location = "https://wa.me/27825615932?text=Hi%20there"
    /\ incs = [NoCounts EXCEPT !["wjm"]["whatsapp_clicks"] = 2]

\* C4: a request to a slug route for a slug that is no key of the cards
\* document is answered 404.
C4_UnknownSlug404 ==
    (/\ req.route \in SlugRoutes
     /\ load_cards.ok
     /\ req.slug \notin DOMAIN load_cards.data.cards)
        => resp.status = 404

C4_Witness ==
    /\ req.route = "go_nfc" /\ req.slug = "ghost"
    /\ load_cards.ok /\ "ghost" \notin DOMAIN load_cards.data.cards
    /\ resp.status = 404

PasswordSent == FormGet(req'.args, "password", "")

GuardedRoutes == {"admin", "admin_export_csv", "admin_reset_counters"}

\* C5: a session's flag becomes set only by a POST /admin/login whose password
\* passes password_ok; a login POST with a rejected password renders the login
\* page with an error and leaves the sessions as they are; with the flag
\* unset, /admin, /admin/export.csv and /admin/reset-counters redirect to the
\* login page and change neither the counters file nor a session.
C5_SessionGuard ==
    [][ /\ \A c \in Clients :
              (~session[c] /\ session'[c]) =>
                  /\ req'.route = "admin_login" /\ req'.method = "POST"
                  /\ req'.client = c
                  /\ password_ok(authFile, env, PasswordSent)
        /\ (/\ req'.route = "admin_login" /\ req'.method = "POST"
            /\ ~password_ok(authFile, env, PasswordSent)) =>
                  /\ resp'.status = 200 /\ resp'.body = "admin_login.html"
                  /\ resp'.error = "Incorrect password."
                  /\ session' = session
        /\ (req'.route \in GuardedRoutes /\ ~session[req'.client]) =>
                  /\ resp'.status = 302 /\ resp'.location = "/admin/login"
                  /\ countersFile' = countersFile
                  /\ session' = session
      ]_vars

\* c1, not logged in while c2 is, asked for the reset: the counts are kept
C5_Witness ==
    /\ req.route = "admin_reset_counters" /\ req.client = "c1"
    /\ ~session["c1"] /\ session["c2"]
    /\ resp.location = "/admin/login"
    /\ Shown(countersFile)["wjm"]["nfc_scans"] >= 1

\* the reset request that is to rewrite the hash
ValidReset(r) ==
    /\ r.route = "admin_password_reset" /\ r.method = "POST"
    /\ env.ADMIN_RESET_KEY # ""
    /\ FormGet(r.args, "reset_key", "") = env.ADMIN_RESET_KEY
    /\ Len(FormGet(r.args, "new_password", "")) >= 8
    /\ FormGet(r.args, "confirm_password", "") = FormGet(r.args, "new_password", "")

\* C6: the persisted hash is rewritten only by a reset POST made while a reset
\* key is configured, with that key, a new password of 8 characters or more
\* and an equal confirmation; every other reset request leaves the persisted
\* hash and the session flags as they are.
C6_ResetOnlyWhenValid ==
    [][ /\ authFile' # authFile => ValidReset(req')
        /\ (req'.route = "admin_password_reset" /\ ~ValidReset(req')) =>
                (authFile' = authFile /\ session' = session)
      ]_vars

\* a reset POST with the right key and a confirmation that differs, after an
\* earlier reset: the hash of the earlier reset is still there
C6_Witness ==
    /\ req.route = "admin_password_reset" /\ req.method = "POST"
    /\ req.args = [reset_key |-> "rk-1", new_password |-> "change-me",
                   confirm_password |-> "n3w-passw0rd"]
    /\ resp.error = "Passwords do not match."
    /\ authFile = _save_admin_password_hash(Hash("scrypt", "s2", "n3w-passw0rd"))

\* a request that loads the counters store: a tracked route or the card page
\* for a slug that has a card, or the dashboard or its export for a logged-in
\* session, the cards file being readable
CountersOperation(r) ==
    \/ /\ r.route \in IncrementRoutes \cup {"card"}
       /\ get_card(r.slug).status = "card"
    \/ /\ r.route \in {"admin", "admin_export_csv"}
       /\ session[r.client] /\ load_cards.ok

\* C7 as claimed: when the counters file exists and does not parse as a JSON
\* object (no JSON, or JSON that is no object), a counters operation leaves a
\* JSON object in the file: the empty one after a read.
C7_BadFileReplaced ==
    [][ (countersFile.kind \in {"corrupt", "nonobject"}
            /\ CountersOperation(req')) =>
                /\ countersFile'.kind = "object"
                /\ req'.route \notin IncrementRoutes =>
                        countersFile' = Obj(EmptyDoc)
      ]_vars

\* C8 as claimed: the counters file path always holds a complete document of
\* one save call (or no file yet), and no save call fails to rename.
C8_SaveNeverTorn ==
    /\ countersFile.kind \in {"missing", "object"}
    /\ renameErrors = 0

\* C9: when the save of an increment completes, with no other worker inside
\* _save_counters, the file holds the document that request loaded with its
\* one counter raised: whatever was stored since its load, in any counter of
\* any slug, is overwritten.
C9_WholeDocumentOverwritten ==
    [][ \A p \in Procs :
          (/\ procs[p].pc = "replace" /\ procs[p].ctx = "incr"
           /\ procs'[p].pc = "idle" /\ completed' # completed
           /\ \A q \in Procs \ {p} : procs[q].pc \notin {"write", "replace"}) =>
              \A s \in Slugs, k \in CounterKeys :
                  Shown(countersFile')[s][k] =
                      CardData(procs[p].loaded, s)[k]
                        + (IF s = procs[p].slug /\ k = procs[p].key THEN 1 ELSE 0)
      ]_vars

\* three increments have returned and no call has failed: two of wjm's
\* nfc_scans, which rose by 1, and one of anna's whatsapp_clicks, which is 0
C9_LostUpdates ==
    /\ \A p \in Procs : procs[p].pc = "idle"
    /\ renameErrors = 0
    /\ completed = [NoCounts EXCEPT !["wjm"]["nfc_scans"] = 2,
                                    !["anna"]["whatsapp_clicks"] = 1]
    /\ Shown(countersFile)["wjm"]["nfc_scans"] = startv["wjm"]["nfc_scans"] + 1
    /\ Shown(countersFile)["anna"]["whatsapp_clicks"] = 0

LoginPost == req.route = "admin_login" /\ req.method = "POST"

LoginAccepted == resp.status = 302 /\ resp.location = "/admin"

\* C10: while a hash is persisted, a login is accepted exactly with the
\* password of the last successful reset, and so the environment's password is
\* rejected when it differs; with no hash persisted a login is accepted
\* exactly with the environment's password.
C10_PersistedHashFirst ==
    LoginPost =>
        LET pw == FormGet(req.args, "password", "")
        IN IF authFile.kind = "object"
           THEN LoginAccepted <=> pw = authFile.password_hash.pw
           ELSE LoginAccepted <=> pw = "change-me"

\* after a reset to n3w-passw0rd, the environment's password is rejected
C10_Witness ==
    /\ LoginPost
    /\ authFile.kind = "object" /\ authFile.password_hash.pw = "n3w-passw0rd"
    /\ req.args = [password |-> "change-me"]
    /\ resp.error = "Incorrect password."

====
